---- MODULE Spec2Model ----
(***************************************************************************)
(* Model of the request-signing and multi-endpoint broadcast subsystem of  *)
(* flashbotsrpc: FlashbotsRPC.CallWithFlashbotsSignature (one endpoint)    *)
(* and BuilderBroadcastRPC.broadcastRequest / BroadcastBundle (fan-out to  *)
(* N endpoints over goroutines, a WaitGroup and an unbuffered channel).    *)
(*                                                                         *)
(* Byte strings that the program only passes around (request bodies, raw   *)
(* result payloads, error texts) are TLA+ strings.  Response bodies, which *)
(* the program parses with encoding/json, are records describing the JSON  *)
(* document: whether it is syntactically valid, whether it is an object,   *)
(* and the JSON type and value of its "error" and "result" members.        *)
(* keccak-256, the personal-message hash and the ECDSA signature are       *)
(* injective symbolic terms over their arguments.                          *)
(***************************************************************************)
EXTENDS Integers, Sequences, FiniteSets, TLC

(***************************************************************************)
(* Bounds                                                                  *)
(***************************************************************************)
\* largest number of configured endpoint URLs explored
MaxUrls == 3

\* largest number of options passed to New
MaxOptions == 2

(***************************************************************************)
(* Values                                                                  *)
(***************************************************************************)
\* the nil json.RawMessage / nil []byte
NilMsg == "<nil>"

\* the nil error
NoErr == [type |-> "nil", wraps |-> "", text |-> ""]

\* var ErrRelayErrorResponse = errors.New("relay error response")
ErrRelayErrorResponse == "relay error response"

\* variant of ErrorfRelay: formats with %v, so the error does not wrap the sentinel
ErrorfRelayUnwrapped(msg) ==
    [type |-> "*errors.errorString", wraps |-> "",
     text |-> ErrRelayErrorResponse \o ": " \o msg]

\* fmt.Errorf("%w: %s", ErrRelayErrorResponse, msg)
ErrorfRelay(msg) ==
    [type |-> "*fmt.wrapError", wraps |-> ErrRelayErrorResponse,
     text |-> ErrRelayErrorResponse \o ": " \o msg]

\* errors.Is(err, ErrRelayErrorResponse)
IsRelayError(err) == err.wraps = ErrRelayErrorResponse

\* errors produced by encoding/json, net/http and crypto
JsonSyntaxError == [type |-> "*json.SyntaxError", wraps |-> "", text |-> "invalid character"]
JsonTypeError == [type |-> "*json.UnmarshalTypeError", wraps |-> "", text |-> "cannot unmarshal"]
JsonEOFError == [type |-> "*json.SyntaxError", wraps |-> "", text |-> "unexpected end of JSON input"]
MarshalError == [type |-> "*json.UnsupportedTypeError", wraps |-> "", text |-> "json: unsupported type"]
SignError == [type |-> "*errors.errorString", wraps |-> "", text |-> "invalid private key"]
UrlParseError == [type |-> "*url.Error", wraps |-> "", text |-> "parse: missing protocol scheme"]
TransportError == [type |-> "*url.Error", wraps |-> "", text |-> "Post: context deadline exceeded"]
ReadError == [type |-> "*errors.errorString", wraps |-> "", text |-> "unexpected EOF"]

\* the classes of the spec's error taxonomy, by the Go error that is returned
IsTransportError(err) == err \in {UrlParseError, TransportError, ReadError}
IsProtocolError(err) == err \in {JsonSyntaxError, JsonTypeError, JsonEOFError}

(***************************************************************************)
(* Inputs: methods, parameters, keys, URLs                                 *)
(***************************************************************************)
\* a parameter value json.Marshal rejects (a Go channel or func)
UnsupportedParam == "<chan>"
Params == {"{\"txs\":[\"0xAA\"],\"blockNumber\":\"0xCAFE08\"}", UnsupportedParam}

\* a private key crypto.Sign rejects
InvalidKey == "<invalid key>"
Keys == {"K1", InvalidKey}

\* a URL http.NewRequest cannot parse, and one it can
BadUrl == ":no-scheme"
Urls == {"https://builder", BadUrl}

(***************************************************************************)
(* Request serialisation and signing                                       *)
(***************************************************************************)
\* json.Marshal(rpcRequest{ID: 1, JSONRPC: "2.0", Method: method, Params: params})
Marshal(method, param) ==
    IF param = UnsupportedParam
    THEN [err |-> MarshalError, body |-> NilMsg]
    ELSE [err |-> NoErr,
          body |-> "{\"id\":1,\"jsonrpc\":\"2.0\",\"method\":\"" \o method
                   \o "\",\"params\":[" \o param \o "]}"]

\* crypto.Keccak256Hash(body).Hex()
Keccak256Hex(b) == "0x" \o "keccak256(" \o b \o ")"

\* accounts.TextHash(data)
TextHash(data) == "keccak256(\\x19Ethereum Signed Message:\\n66" \o data \o ")"

\* crypto.Sign(digest, privKey)
Sign(digest, key) ==
    IF key = InvalidKey
    THEN [err |-> SignError, sig |-> NilMsg]
    ELSE [err |-> NoErr, sig |-> "sig(" \o digest \o "," \o key \o ")"]

\* crypto.PubkeyToAddress(privKey.PublicKey).Hex()
PubkeyToAddressHex(key) == "0xAddr(" \o key \o ")"

\* hexutil.Encode(sig)
HexutilEncode(sig) == "0x" \o sig

\* the X-Flashbots-Signature header value
SignatureHeader(key, sig) == PubkeyToAddressHex(key) \o ":" \o HexutilEncode(sig)

\* http.NewRequest("POST", url, ...) succeeds iff the URL parses
NewRequestOK(url) == url # BadUrl

(***************************************************************************)
(* Response bodies and their decoding by encoding/json                     *)
(***************************************************************************)
\* messages a relay puts in an error
RelayMsgs == {"block param must be a hex int"}

\* raw JSON texts of a "result" member
BundleResult == "{\"bundleHash\":\"0xdeadbeef\"}"
OtherBundleResult == "{\"bundleHash\":\"0xfeedface\"}"
ResultTexts == {BundleResult, OtherBundleResult, "null"}

\* a JSON member: absent, or present with a JSON type t and a value v
Absent == [t |-> "absent", v |-> ""]
Member(t, v) == [t |-> t, v |-> v]

\* "error" members: absent, null, a number, a string, or an object {code, message}
ErrorMembers ==
    {Absent, Member("null", ""), Member("number", "7")}
    \cup {Member("string", m) : m \in RelayMsgs \cup {""}}
    \cup {Member("object", m) : m \in RelayMsgs \cup {""}}

\* "result" members: absent or any JSON value, kept as raw text
ResultMembers == {Absent} \cup {Member("value", r) : r \in ResultTexts}

\* a body that is not JSON, JSON that is not an object, the JSON null, an object
InvalidBody == [kind |-> "invalid", error |-> Absent, result |-> Absent]
NonObjectBody == [kind |-> "nonobject", error |-> Absent, result |-> Absent]
NullBody == [kind |-> "null", error |-> Absent, result |-> Absent]
ObjectBody(e, r) == [kind |-> "object", error |-> e, result |-> r]
NoBody == [kind |-> "none", error |-> Absent, result |-> Absent]

\* every response body an endpoint of the single-endpoint call may send
Bodies ==
    {InvalidBody, NonObjectBody, NullBody}
    \cup {ObjectBody(e, r) : e \in ErrorMembers, r \in ResultMembers}

\* the response bodies a builder endpoint of the broadcast may send
SuccessBody == ObjectBody(Absent, Member("value", BundleResult))
FlatErrorBody == ObjectBody(Member("string", "block param must be a hex int"), Absent)
RpcErrorBody == ObjectBody(Member("object", "block param must be a hex int"), Absent)
OtherSuccessBody == ObjectBody(Absent, Member("value", OtherBundleResult))
BuilderBodies == {SuccessBody, OtherSuccessBody, FlatErrorBody, RpcErrorBody, InvalidBody}

\* json.Unmarshal(data, new(RelayErrorResponse)): struct {Error string `json:"error"`}
UnmarshalRelayErrorResponse(data) ==
    CASE data.kind = "invalid" -> [err |-> JsonSyntaxError, Error |-> ""]
      [] data.kind = "nonobject" -> [err |-> JsonTypeError, Error |-> ""]
      [] data.kind = "null" -> [err |-> NoErr, Error |-> ""]
      [] OTHER ->
           CASE data.error.t = "string" -> [err |-> NoErr, Error |-> data.error.v]
             [] data.error.t \in {"absent", "null"} -> [err |-> NoErr, Error |-> ""]
             [] OTHER -> [err |-> JsonTypeError, Error |-> ""]

\* the nil *RpcError, and a decoded one
NilRpcError == [set |-> FALSE, Message |-> ""]
RpcErrorOf(m) == [set |-> TRUE, Message |-> m]

\* json.Unmarshal(data, new(rpcResponse)):
\* struct {ID int; JSONRPC string; Result json.RawMessage; Error *RpcError}
UnmarshalRpcResponse(data) ==
    LET res == IF data.kind = "object" /\ data.result.t = "value"
               THEN data.result.v ELSE NilMsg
    IN CASE data.kind = "invalid" -> [err |-> JsonSyntaxError, Result |-> NilMsg, Error |-> NilRpcError]
         [] data.kind = "nonobject" -> [err |-> JsonTypeError, Result |-> NilMsg, Error |-> NilRpcError]
         [] data.kind = "null" -> [err |-> NoErr, Result |-> NilMsg, Error |-> NilRpcError]
         [] OTHER ->
              CASE data.error.t = "object" ->
                     [err |-> NoErr, Result |-> res, Error |-> RpcErrorOf(data.error.v)]
                [] data.error.t \in {"absent", "null"} ->
                     [err |-> NoErr, Result |-> res, Error |-> NilRpcError]
                [] OTHER -> [err |-> JsonTypeError, Result |-> res, Error |-> NilRpcError]

\* variant of UnmarshalSendBundleResponse: the struct tag names another member,
\* so bundleHash is never decoded
UnmarshalSendBundleResponseWrongTag(msg) ==
    CASE msg = NilMsg -> [err |-> JsonEOFError, BundleHash |-> ""]
      [] msg \in {BundleResult, OtherBundleResult, "null"} -> [err |-> NoErr, BundleHash |-> ""]
      [] OTHER -> [err |-> JsonTypeError, BundleHash |-> ""]

\* json.Unmarshal(msg, &FlashbotsSendBundleResponse{}): struct {BundleHash string}
UnmarshalSendBundleResponse(msg) ==
    CASE msg = NilMsg -> [err |-> JsonEOFError, BundleHash |-> ""]
      [] msg = BundleResult -> [err |-> NoErr, BundleHash |-> "0xdeadbeef"]
      [] msg = OtherBundleResult -> [err |-> NoErr, BundleHash |-> "0xfeedface"]
      [] msg = "null" -> [err |-> NoErr, BundleHash |-> ""]
      [] OTHER -> [err |-> JsonTypeError, BundleHash |-> ""]

(***************************************************************************)
(* State                                                                   *)
(***************************************************************************)
VARIABLES
    \* BuilderBroadcastRPC: the configured URL list and the Debug flag
    urls, bDebug,
    \* BuilderBroadcastRPC: the Headers map, the Timeout and the HTTP client
    bHeaders, bTimeout, bClient,
    \* arguments of the BroadcastBundle call: the bundle and the private key
    bParam, bKey,
    \* broadcastRequest: position of the calling goroutine and its locals
    bpc, body, signature, dispatched, responses,
    \* the WaitGroup counter, the channel's closed flag, the closing goroutine
    wg, closed, closerPc,
    \* per worker goroutine: position, response body read, err it returned on
    wpc, wdata, werr,
    \* what broadcastRequest returned and what BroadcastBundle returned
    returned, bundleResponses,
    \* observations: calls of crypto.Sign, requests handed to client.Do per
    \* endpoint, lines written by log.Println
    signCalls, sent, logged,
    \* observations: calls of json.Marshal, endpoints in the order in which the
    \* range loop received their bodies
    marshalCalls, delivered,
    \* FlashbotsRPC: the url and the Debug flag
    rpcUrl, rpcDebug,
    \* the options given to New and the client field New left in the struct
    rpcOptions, rpcClient,
    \* arguments of CallWithFlashbotsSignature: the parameter and the private key
    cParam, cKey,
    \* CallWithFlashbotsSignature: position and locals body, signature, data
    cpc, cbody, csignature, cdata,
    \* what CallWithFlashbotsSignature returned: (json.RawMessage, error)
    cresult, cerr,
    \* observations: calls of crypto.Sign, requests handed to client.Do, log lines
    csignCalls, csent, clogged,
    \* observations: calls of json.Marshal, the client each request went through
    cmarshalCalls, cvia,
    \* what FlashbotsSendBundle returned: (res.BundleHash, err)
    sbResult, sbErr,
    \* FlashbotsSimulateBlock: the block and maxTx arguments, the position, the
    \* index of the range loop, the local txs, the params handed to
    \* FlashbotsCallBundle
    simBlock, simMaxTx, simPc, simIdx, simTxs, simParams,
    \* getBlock: the client's url, the method and withTransactions arguments,
    \* the position, the body the node answered with, what RawCall returned
    \* (result, err) and what getBlock returned (*Block, error)
    gUrl, gMethod, gWithTx, gpc, gdata, gResult, gErr, gBlock, gBlockErr

cvars == <<rpcOptions, rpcClient, cmarshalCalls, cvia, sbResult, sbErr,
           rpcUrl, rpcDebug, cParam, cKey, cpc, cbody, csignature, cdata, cresult,
           cerr, csignCalls, csent, clogged>>

bvars == <<marshalCalls, delivered, bHeaders, bTimeout, bClient,
           urls, bDebug, bParam, bKey, bpc, body, signature, dispatched, responses,
           wg, closed, closerPc, wpc, wdata, werr, returned, bundleResponses,
           signCalls, sent, logged>>

svars == <<simBlock, simMaxTx, simPc, simIdx, simTxs, simParams>>

gvars == <<gUrl, gMethod, gWithTx, gpc, gdata, gResult, gErr, gBlock, gBlockErr>>

\* the state of the operations other than the broadcast and the signed call
ovars == <<svars, gvars>>

\* indices of the configured endpoints
Endpoints == 1..Len(urls)

\* make(map[string]string): the Headers map a constructor leaves
EmptyHeaders == {}

\* the Timeout a constructor sets: 30 * time.Second
DefaultTimeout == "30s"

\* the fields NewBuilderBroadcastRPC leaves beside urls and Debug: the empty
\* Headers map, the Timeout, and the client built from that Timeout
NewBuilderBroadcastRPC ==
    [Headers |-> EmptyHeaders, Timeout |-> DefaultTimeout,
     client |-> "&http.Client{Timeout: " \o DefaultTimeout \o "}"]

\* a broadcastRequestResponse{Msg, Err}
Outcome(msg, err) == [Msg |-> msg, Err |-> err]

\* a BuilderBroadcastResponse{BundleResponse, Err}
BroadcastResponse(hash, err) == [BundleResponse |-> [BundleHash |-> hash], Err |-> err]

\* an *http.Request as client.Do receives it
Request(url, b, sig, hdrs) ==
    [method |-> "POST", url |-> url, body |-> b, signature |-> sig, headers |-> hdrs]

\* the locals and observations of a broadcast before it starts
BroadcastLocalsInit ==
    /\ body = NilMsg
    /\ signature = NilMsg
    /\ dispatched = 0
    /\ responses = <<>>
    /\ wg = 0
    /\ closed = FALSE
    /\ closerPc = "idle"
    /\ wpc = [i \in Endpoints |-> "idle"]
    /\ wdata = [i \in Endpoints |-> NoBody]
    /\ werr = [i \in Endpoints |-> NoErr]
    /\ returned = <<>>
    /\ bundleResponses = <<>>
    /\ signCalls = 0
    /\ sent = [i \in Endpoints |-> <<>>]
    /\ logged = 0
    /\ marshalCalls = 0
    /\ delivered = <<>>

\* NewBuilderBroadcastRPC(urls, options...) followed by a call of BroadcastBundle
BroadcastInit ==
    /\ urls \in UNION {[1..n -> Urls] : n \in 0..MaxUrls}
    /\ bDebug \in BOOLEAN
    /\ bHeaders = NewBuilderBroadcastRPC.Headers
    /\ bTimeout = NewBuilderBroadcastRPC.Timeout
    /\ bClient = NewBuilderBroadcastRPC.client
    /\ bParam \in Params
    /\ bKey \in Keys
    /\ bpc = "marshal"
    /\ BroadcastLocalsInit

\* no broadcast is under way
BroadcastIdle ==
    /\ urls = <<>>
    /\ bDebug = FALSE
    /\ bHeaders = NewBuilderBroadcastRPC.Headers
    /\ bTimeout = NewBuilderBroadcastRPC.Timeout
    /\ bClient = NewBuilderBroadcastRPC.client
    /\ bParam = UnsupportedParam
    /\ bKey = InvalidKey
    /\ bpc = "idle"
    /\ BroadcastLocalsInit

(***************************************************************************)
(* broadcastRequest: the calling goroutine                                 *)
(***************************************************************************)
\* body, err := json.Marshal(request); on error return the one outcome {nil, err}
BMarshal ==
    /\ bpc = "marshal"
    /\ marshalCalls' = marshalCalls + 1
    /\ delivered' = delivered
    /\ LET m == Marshal("eth_sendBundle", bParam)
       IN IF m.err # NoErr
          THEN /\ returned' = <<Outcome(NilMsg, m.err)>>
               /\ bpc' = "returned"
               /\ body' = body
          ELSE /\ body' = m.body
               /\ bpc' = "sign"
               /\ returned' = returned
    /\ UNCHANGED <<cvars, ovars>>
    /\ UNCHANGED <<urls, bDebug, bHeaders, bTimeout, bClient,
                   bParam, bKey, signature, dispatched, responses, wg,
                   closed, closerPc, wpc, wdata, werr, bundleResponses, signCalls,
                   sent, logged>>

\* variant of BSign: the keccak hash of the body is signed directly, without
\* the personal-message hash
BSignRawHash ==
    /\ bpc = "sign"
    /\ signCalls' = signCalls + 1
    /\ LET hashedBody == Keccak256Hex(body)
           s == Sign(hashedBody, bKey)
       IN IF s.err # NoErr
          THEN /\ returned' = <<Outcome(NilMsg, s.err)>>
               /\ bpc' = "returned"
               /\ signature' = signature
          ELSE /\ signature' = SignatureHeader(bKey, s.sig)
               /\ bpc' = "dispatch"
               /\ returned' = returned
    /\ UNCHANGED <<cvars, ovars>>
    /\ UNCHANGED <<marshalCalls, delivered>>
    /\ UNCHANGED <<urls, bDebug, bHeaders, bTimeout, bClient,
                   bParam, bKey, body, dispatched, responses, wg,
                   closed, closerPc, wpc, wdata, werr, bundleResponses, sent, logged>>

\* variant of BSign: the error of crypto.Sign is not checked
BSignIgnoreError ==
    /\ bpc = "sign"
    /\ signCalls' = signCalls + 1
    /\ LET hashedBody == Keccak256Hex(body)
           s == Sign(TextHash(hashedBody), bKey)
       IN /\ signature' = IF s.err # NoErr THEN signature ELSE SignatureHeader(bKey, s.sig)
          /\ bpc' = "dispatch"
          /\ returned' = returned
    /\ UNCHANGED <<cvars, ovars>>
    /\ UNCHANGED <<marshalCalls, delivered>>
    /\ UNCHANGED <<urls, bDebug, bHeaders, bTimeout, bClient,
                   bParam, bKey, body, dispatched, responses, wg,
                   closed, closerPc, wpc, wdata, werr, bundleResponses, sent, logged>>

\* hashedBody, sig, signature; on error return the one outcome {nil, err}
BSign ==
    /\ bpc = "sign"
    /\ signCalls' = signCalls + 1
    /\ LET hashedBody == Keccak256Hex(body)
           s == Sign(TextHash(hashedBody), bKey)
       IN IF s.err # NoErr
          THEN /\ returned' = <<Outcome(NilMsg, s.err)>>
               /\ bpc' = "returned"
               /\ signature' = signature
          ELSE /\ signature' = SignatureHeader(bKey, s.sig)
               /\ bpc' = "dispatch"
               /\ returned' = returned
    /\ UNCHANGED <<cvars, ovars>>
    /\ UNCHANGED <<marshalCalls, delivered>>
    /\ UNCHANGED <<urls, bDebug, bHeaders, bTimeout, bClient,
                   bParam, bKey, body, dispatched, responses, wg,
                   closed, closerPc, wpc, wdata, werr, bundleResponses, sent, logged>>

\* one iteration of "for _, url := range broadcaster.urls": wg.Add(1); go func(url)
BDispatch ==
    /\ bpc = "dispatch"
    /\ dispatched < Len(urls)
    /\ dispatched' = dispatched + 1
    /\ wg' = wg + 1
    /\ wpc' = [wpc EXCEPT ![dispatched + 1] = "newreq"]
    /\ UNCHANGED <<cvars, ovars>>
    /\ UNCHANGED <<marshalCalls, delivered>>
    /\ UNCHANGED <<urls, bDebug, bHeaders, bTimeout, bClient,
                   bParam, bKey, bpc, body, signature, responses,
                   closed, closerPc, wdata, werr, returned, bundleResponses,
                   signCalls, sent, logged>>

\* variant of BSpawnCloser: no goroutine waits on the wait-group, so nothing
\* closes the channel
BSpawnCloserNone ==
    /\ bpc = "dispatch"
    /\ dispatched = Len(urls)
    /\ closerPc' = closerPc
    /\ bpc' = "collect"
    /\ UNCHANGED <<cvars, ovars>>
    /\ UNCHANGED <<marshalCalls, delivered>>
    /\ UNCHANGED <<urls, bDebug, bHeaders, bTimeout, bClient,
                   bParam, bKey, body, signature, dispatched, responses,
                   wg, closed, wpc, wdata, werr, returned, bundleResponses,
                   signCalls, sent, logged>>

\* after the loop: go func() { wg.Wait(); close(responseCh) }()
BSpawnCloser ==
    /\ bpc = "dispatch"
    /\ dispatched = Len(urls)
    /\ closerPc' = "wait"
    /\ bpc' = "collect"
    /\ UNCHANGED <<cvars, ovars>>
    /\ UNCHANGED <<marshalCalls, delivered>>
    /\ UNCHANGED <<urls, bDebug, bHeaders, bTimeout, bClient,
                   bParam, bKey, body, signature, dispatched, responses,
                   wg, closed, wpc, wdata, werr, returned, bundleResponses,
                   signCalls, sent, logged>>

\* variant of Aggregate: a success is put in front of the collection
AggregatePrepend(data, collected) ==
    LET errorResp == UnmarshalRelayErrorResponse(data)
        resp == UnmarshalRpcResponse(data)
    IN IF errorResp.err = NoErr /\ errorResp.Error # ""
       THEN [ret |-> TRUE, out |-> <<Outcome(NilMsg, ErrorfRelay(errorResp.Error))>>]
       ELSE IF resp.err # NoErr
       THEN [ret |-> TRUE, out |-> <<Outcome(NilMsg, resp.err)>>]
       ELSE IF resp.Error.set
       THEN [ret |-> TRUE, out |-> <<Outcome(NilMsg, ErrorfRelay(resp.Error.Message))>>]
       ELSE [ret |-> FALSE, out |-> <<Outcome(resp.Result, NoErr)>> \o collected]

\* variant of Aggregate: a success replaces the collection instead of extending it
AggregateNoAppend(data, collected) ==
    LET errorResp == UnmarshalRelayErrorResponse(data)
        resp == UnmarshalRpcResponse(data)
    IN IF errorResp.err = NoErr /\ errorResp.Error # ""
       THEN [ret |-> TRUE, out |-> <<Outcome(NilMsg, ErrorfRelay(errorResp.Error))>>]
       ELSE IF resp.err # NoErr
       THEN [ret |-> TRUE, out |-> <<Outcome(NilMsg, resp.err)>>]
       ELSE IF resp.Error.set
       THEN [ret |-> TRUE, out |-> <<Outcome(NilMsg, ErrorfRelay(resp.Error.Message))>>]
       ELSE [ret |-> FALSE, out |-> <<Outcome(resp.Result, NoErr)>>]

\* variant of Aggregate: a failure is recorded as one more outcome and the loop
\* goes on reading
AggregateContinue(data, collected) ==
    LET errorResp == UnmarshalRelayErrorResponse(data)
        resp == UnmarshalRpcResponse(data)
    IN IF errorResp.err = NoErr /\ errorResp.Error # ""
       THEN [ret |-> FALSE,
             out |-> Append(collected, Outcome(NilMsg, ErrorfRelay(errorResp.Error)))]
       ELSE IF resp.err # NoErr
       THEN [ret |-> FALSE, out |-> Append(collected, Outcome(NilMsg, resp.err))]
       ELSE IF resp.Error.set
       THEN [ret |-> FALSE,
             out |-> Append(collected, Outcome(NilMsg, ErrorfRelay(resp.Error.Message)))]
       ELSE [ret |-> FALSE, out |-> Append(collected, Outcome(resp.Result, NoErr))]

\* variant of Aggregate: a success is appended twice
AggregateTwice(data, collected) ==
    LET errorResp == UnmarshalRelayErrorResponse(data)
        resp == UnmarshalRpcResponse(data)
    IN IF errorResp.err = NoErr /\ errorResp.Error # ""
       THEN [ret |-> TRUE, out |-> <<Outcome(NilMsg, ErrorfRelay(errorResp.Error))>>]
       ELSE IF resp.err # NoErr
       THEN [ret |-> TRUE, out |-> <<Outcome(NilMsg, resp.err)>>]
       ELSE IF resp.Error.set
       THEN [ret |-> TRUE, out |-> <<Outcome(NilMsg, ErrorfRelay(resp.Error.Message))>>]
       ELSE [ret |-> FALSE,
             out |-> collected \o <<Outcome(resp.Result, NoErr), Outcome(resp.Result, NoErr)>>]

\* the body of "for data := range responseCh" for one received response:
\* ret = TRUE when the loop returns early with the collection out
Aggregate(data, collected) ==
    LET errorResp == UnmarshalRelayErrorResponse(data)
        resp == UnmarshalRpcResponse(data)
    IN IF errorResp.err = NoErr /\ errorResp.Error # ""
       THEN [ret |-> TRUE, out |-> <<Outcome(NilMsg, ErrorfRelay(errorResp.Error))>>]
       ELSE IF resp.err # NoErr
       THEN [ret |-> TRUE, out |-> <<Outcome(NilMsg, resp.err)>>]
       ELSE IF resp.Error.set
       THEN [ret |-> TRUE, out |-> <<Outcome(NilMsg, ErrorfRelay(resp.Error.Message))>>]
       ELSE [ret |-> FALSE, out |-> Append(collected, Outcome(resp.Result, NoErr))]

\* responseCh <- body in worker i meets the receive of the range loop
BReceive(i) ==
    /\ bpc = "collect"
    /\ ~closed
    /\ wpc[i] = "send"
    /\ wpc' = [wpc EXCEPT ![i] = "sent"]
    /\ delivered' = Append(delivered, i)
    /\ marshalCalls' = marshalCalls
    /\ LET a == Aggregate(wdata[i], responses)
       IN IF a.ret
          THEN /\ returned' = a.out
               /\ bpc' = "returned"
               /\ responses' = responses
          ELSE /\ responses' = a.out
               /\ bpc' = bpc
               /\ returned' = returned
    /\ UNCHANGED <<cvars, ovars>>
    /\ UNCHANGED <<urls, bDebug, bHeaders, bTimeout, bClient,
                   bParam, bKey, body, signature, dispatched, wg,
                   closed, closerPc, wdata, werr, bundleResponses, signCalls,
                   sent, logged>>

\* the range loop ends on the closed channel: return responses
BReturn ==
    /\ bpc = "collect"
    /\ closed
    /\ returned' = responses
    /\ bpc' = "returned"
    /\ UNCHANGED <<cvars, ovars>>
    /\ UNCHANGED <<marshalCalls, delivered>>
    /\ UNCHANGED <<urls, bDebug, bHeaders, bTimeout, bClient,
                   bParam, bKey, body, signature, dispatched, responses,
                   wg, closed, closerPc, wpc, wdata, werr, bundleResponses,
                   signCalls, sent, logged>>

(***************************************************************************)
(* broadcastRequest: the worker goroutines and the closing goroutine       *)
(***************************************************************************)
\* defer wg.Done() running as worker i returns
WorkerReturns(i, e) ==
    /\ wpc' = [wpc EXCEPT ![i] = "done"]
    /\ werr' = [werr EXCEPT ![i] = e]
    /\ wg' = wg - 1

\* variant of WNewRequest: the signature header is written into the
\* broadcaster's Headers map instead of the request's own header
WNewRequestSharedHeaders(i) ==
    /\ wpc[i] = "newreq"
    /\ IF NewRequestOK(urls[i])
       THEN /\ wpc' = [wpc EXCEPT ![i] = "do"]
            /\ bHeaders' = bHeaders \cup {<<"X-Flashbots-Signature", signature>>}
            /\ UNCHANGED <<werr, wg>>
       ELSE /\ WorkerReturns(i, UrlParseError)
            /\ bHeaders' = bHeaders
    /\ UNCHANGED <<cvars, ovars>>
    /\ UNCHANGED <<marshalCalls, delivered>>
    /\ UNCHANGED <<urls, bDebug, bTimeout, bClient, bParam, bKey, bpc, body,
                   signature, dispatched,
                   responses, closed, closerPc, wdata, returned, bundleResponses,
                   signCalls, sent, logged>>

\* req, err := http.NewRequest("POST", url, bytes.NewBuffer(body)); headers
WNewRequest(i) ==
    /\ wpc[i] = "newreq"
    /\ IF NewRequestOK(urls[i])
       THEN /\ wpc' = [wpc EXCEPT ![i] = "do"]
            /\ UNCHANGED <<werr, wg>>
       ELSE WorkerReturns(i, UrlParseError)
    /\ UNCHANGED <<cvars, ovars>>
    /\ UNCHANGED <<marshalCalls, delivered>>
    /\ UNCHANGED <<urls, bDebug, bHeaders, bTimeout, bClient,
                   bParam, bKey, bpc, body, signature, dispatched,
                   responses, closed, closerPc, wdata, returned, bundleResponses,
                   signCalls, sent, logged>>

\* variant of WDo: the worker sends a re-encoded body under the old signature
WDoReencode(i) ==
    /\ wpc[i] = "do"
    /\ sent' = [sent EXCEPT ![i] = Append(@, Request(urls[i], body \o "\n", signature, bHeaders))]
    /\ \E answered \in BOOLEAN :
         IF answered
         THEN /\ wpc' = [wpc EXCEPT ![i] = "read"]
              /\ UNCHANGED <<werr, wg>>
         ELSE WorkerReturns(i, TransportError)
    /\ UNCHANGED <<cvars, ovars>>
    /\ UNCHANGED <<marshalCalls, delivered>>
    /\ UNCHANGED <<urls, bDebug, bHeaders, bTimeout, bClient,
                   bParam, bKey, bpc, body, signature, dispatched,
                   responses, closed, closerPc, wdata, returned, bundleResponses,
                   signCalls, logged>>

\* variant of WDo: the worker signs the body itself, for its own URL
WDoResign(i) ==
    /\ wpc[i] = "do"
    /\ signCalls' = signCalls + 1
    /\ LET s == Sign(TextHash(Keccak256Hex(body \o urls[i])), bKey)
       IN sent' = [sent EXCEPT ![i] =
                     Append(@, Request(urls[i], body, SignatureHeader(bKey, s.sig), bHeaders))]
    /\ \E answered \in BOOLEAN :
         IF answered
         THEN /\ wpc' = [wpc EXCEPT ![i] = "read"]
              /\ UNCHANGED <<werr, wg>>
         ELSE WorkerReturns(i, TransportError)
    /\ UNCHANGED <<cvars, ovars>>
    /\ UNCHANGED <<marshalCalls, delivered>>
    /\ UNCHANGED <<urls, bDebug, bHeaders, bTimeout, bClient,
                   bParam, bKey, bpc, body, signature, dispatched,
                   responses, closed, closerPc, wdata, returned, bundleResponses,
                   logged>>

\* variant of WDo: a failed call is tried a second time
WDoRetry(i) ==
    /\ wpc[i] = "do"
    /\ \E answered \in BOOLEAN :
         IF answered
         THEN /\ sent' = [sent EXCEPT ![i] = Append(@, Request(urls[i], body, signature, bHeaders))]
              /\ wpc' = [wpc EXCEPT ![i] = "read"]
              /\ UNCHANGED <<werr, wg>>
         ELSE /\ sent' = [sent EXCEPT ![i] =
                            @ \o <<Request(urls[i], body, signature, bHeaders),
                                   Request(urls[i], body, signature, bHeaders)>>]
              /\ WorkerReturns(i, TransportError)
    /\ UNCHANGED <<cvars, ovars>>
    /\ UNCHANGED <<marshalCalls, delivered>>
    /\ UNCHANGED <<urls, bDebug, bHeaders, bTimeout, bClient,
                   bParam, bKey, bpc, body, signature, dispatched,
                   responses, closed, closerPc, wdata, returned, bundleResponses,
                   signCalls, logged>>

\* variant of WDo: a worker issues its request only after the workers of the
\* earlier URLs have handed over their responses or returned
WDoAfterEarlier(i) ==
    /\ wpc[i] = "do"
    /\ \A j \in 1..(i - 1) : wpc[j] \in {"sent", "done"}
    /\ sent' = [sent EXCEPT ![i] = Append(@, Request(urls[i], body, signature, bHeaders))]
    /\ \E answered \in BOOLEAN :
         IF answered
         THEN /\ wpc' = [wpc EXCEPT ![i] = "read"]
              /\ UNCHANGED <<werr, wg>>
         ELSE WorkerReturns(i, TransportError)
    /\ UNCHANGED <<cvars, ovars>>
    /\ UNCHANGED <<marshalCalls, delivered>>
    /\ UNCHANGED <<urls, bDebug, bHeaders, bTimeout, bClient,
                   bParam, bKey, bpc, body, signature, dispatched,
                   responses, closed, closerPc, wdata, returned, bundleResponses,
                   signCalls, logged>>

\* response, err := broadcaster.client.Do(req): the endpoint answers, or the
\* call fails (connection refused, DNS, the client's Timeout)
WDo(i) ==
    /\ wpc[i] = "do"
    /\ sent' = [sent EXCEPT ![i] = Append(@, Request(urls[i], body, signature, bHeaders))]
    /\ \E answered \in BOOLEAN :
         IF answered
         THEN /\ wpc' = [wpc EXCEPT ![i] = "read"]
              /\ UNCHANGED <<werr, wg>>
         ELSE WorkerReturns(i, TransportError)
    /\ UNCHANGED <<cvars, ovars>>
    /\ UNCHANGED <<marshalCalls, delivered>>
    /\ UNCHANGED <<urls, bDebug, bHeaders, bTimeout, bClient,
                   bParam, bKey, bpc, body, signature, dispatched,
                   responses, closed, closerPc, wdata, returned, bundleResponses,
                   signCalls, logged>>

\* body, err := ioutil.ReadAll(response.Body): the body arrives, or the read fails
WReadAll(i) ==
    /\ wpc[i] = "read"
    /\ \/ /\ WorkerReturns(i, ReadError)
          /\ wdata' = wdata
       \/ \E b \in BuilderBodies :
            /\ wdata' = [wdata EXCEPT ![i] = b]
            /\ wpc' = [wpc EXCEPT ![i] = "send"]
            /\ UNCHANGED <<werr, wg>>
    /\ UNCHANGED <<cvars, ovars>>
    /\ UNCHANGED <<marshalCalls, delivered>>
    /\ UNCHANGED <<urls, bDebug, bHeaders, bTimeout, bClient,
                   bParam, bKey, bpc, body, signature, dispatched,
                   responses, closed, closerPc, returned, bundleResponses,
                   signCalls, sent, logged>>

\* after responseCh <- body: the Debug log line, then the worker returns
WAfterSend(i) ==
    /\ wpc[i] = "sent"
    /\ logged' = IF bDebug THEN logged + 1 ELSE logged
    /\ WorkerReturns(i, NoErr)
    /\ UNCHANGED <<cvars, ovars>>
    /\ UNCHANGED <<marshalCalls, delivered>>
    /\ UNCHANGED <<urls, bDebug, bHeaders, bTimeout, bClient,
                   bParam, bKey, bpc, body, signature, dispatched,
                   responses, closed, closerPc, wdata, returned, bundleResponses,
                   signCalls, sent>>

\* wg.Wait() returns when the counter is zero; close(responseCh)
CloserClose ==
    /\ closerPc = "wait"
    /\ wg = 0
    /\ closed' = TRUE
    /\ closerPc' = "done"
    /\ UNCHANGED <<cvars, ovars>>
    /\ UNCHANGED <<marshalCalls, delivered>>
    /\ UNCHANGED <<urls, bDebug, bHeaders, bTimeout, bClient,
                   bParam, bKey, bpc, body, signature, dispatched,
                   responses, wg, wpc, wdata, werr, returned, bundleResponses,
                   signCalls, sent, logged>>

(***************************************************************************)
(* BroadcastBundle                                                         *)
(***************************************************************************)
\* the responses BroadcastBundle appends for one broadcastRequestResponse
BundleResponsesFor(rr) ==
    LET fb == UnmarshalSendBundleResponse(rr.Msg)
        decoded == BroadcastResponse(fb.BundleHash, fb.err)
    IN IF rr.Err # NoErr
       THEN <<BroadcastResponse("", rr.Err), decoded>>
       ELSE <<decoded>>

\* the loop "for _, requestResponse := range requestResponses"
RECURSIVE MapBundleResponses(_)
MapBundleResponses(rrs) ==
    IF rrs = <<>> THEN <<>>
    ELSE BundleResponsesFor(Head(rrs)) \o MapBundleResponses(Tail(rrs))

\* BroadcastBundle returns, after broadcastRequest has returned to it
BroadcastBundle ==
    /\ bpc = "returned"
    /\ bundleResponses' = MapBundleResponses(returned)
    /\ bpc' = "done"
    /\ UNCHANGED <<cvars, ovars>>
    /\ UNCHANGED <<marshalCalls, delivered>>
    /\ UNCHANGED <<urls, bDebug, bHeaders, bTimeout, bClient,
                   bParam, bKey, body, signature, dispatched, responses,
                   wg, closed, closerPc, wpc, wdata, werr, returned, signCalls,
                   sent, logged>>

BroadcastNext ==
    \/ BMarshal
    \/ BSign
    \/ BDispatch
    \/ BSpawnCloser
    \/ \E i \in Endpoints : BReceive(i)
    \/ BReturn
    \/ BroadcastBundle
    \/ \E i \in Endpoints : WNewRequest(i)
    \/ \E i \in Endpoints : WDo(i)
    \/ \E i \in Endpoints : WReadAll(i)
    \/ \E i \in Endpoints : WAfterSend(i)
    \/ CloserClose

(***************************************************************************)
(* FlashbotsRPC.CallWithFlashbotsSignature                                 *)
(***************************************************************************)
\* the client a caller passes to WithHttpClient, the &http.Client{} New builds,
\* and the zero value of the client field
CustomClient == "custom httpClient"
DefaultClient == "&http.Client{Timeout: rpc.Timeout}"
NilClient == "<nil client>"

\* options.go: WithHttpClient(client) and WithDebug(enabled), as option values
WithHttpClient(c) == [opt |-> "WithHttpClient", client |-> c, enabled |-> FALSE]
WithDebug(b) == [opt |-> "WithDebug", client |-> NilClient, enabled |-> b]

\* option(rpc): what the function returned by an option does to the struct
ApplyOption(rpc, o) ==
    IF o.opt = "WithHttpClient"
    THEN [rpc EXCEPT !.client = o.client]
    ELSE [rpc EXCEPT !.Debug = o.enabled]

\* for _, option := range options { option(rpc) }
RECURSIVE ApplyOptions(_, _)
ApplyOptions(rpc, options) ==
    IF options = <<>> THEN rpc
    ELSE ApplyOptions(ApplyOption(rpc, Head(options)), Tail(options))

\* New(url, options...): the struct literal, the options, then rpc.client = &http.Client{}
New(url, options) ==
    LET rpc == ApplyOptions([url |-> url, client |-> NilClient, Debug |-> FALSE], options)
    IN [rpc EXCEPT !.client = DefaultClient]

\* the option lists explored
OptionLists ==
    UNION {[1..n -> {WithHttpClient(CustomClient), WithDebug(TRUE)}] : n \in 0..MaxOptions}

\* the locals and observations of a signed call before it starts
CallLocalsInit ==
    /\ cbody = NilMsg
    /\ csignature = NilMsg
    /\ cdata = NoBody
    /\ cresult = NilMsg
    /\ cerr = NoErr
    /\ csignCalls = 0
    /\ csent = <<>>
    /\ clogged = 0
    /\ cmarshalCalls = 0
    /\ cvia = <<>>
    /\ sbResult = ""
    /\ sbErr = NoErr

\* New(url, options...) followed by a call of CallWithFlashbotsSignature
CallInit ==
    /\ rpcUrl \in Urls
    /\ rpcOptions \in OptionLists
    /\ rpcClient = New(rpcUrl, rpcOptions).client
    \* the Debug field is what the options left, or the caller's rpc.Debug = true
    /\ rpcDebug \in {New(rpcUrl, rpcOptions).Debug, TRUE}
    /\ cParam \in Params
    /\ cKey \in Keys
    /\ cpc = "marshal"
    /\ CallLocalsInit

\* no signed call is under way
CallIdle ==
    /\ rpcUrl = BadUrl
    /\ rpcOptions = <<>>
    /\ rpcClient = New(BadUrl, <<>>).client
    /\ rpcDebug = FALSE
    /\ cParam = UnsupportedParam
    /\ cKey = InvalidKey
    /\ cpc = "idle"
    /\ CallLocalsInit

\* return result, err
CallReturns(result, err) ==
    /\ cresult' = result
    /\ cerr' = err
    /\ cpc' = "returned"

\* body, err := json.Marshal(request)
CMarshal ==
    /\ cpc = "marshal"
    /\ cmarshalCalls' = cmarshalCalls + 1
    /\ LET m == Marshal("eth_sendBundle", cParam)
       IN IF m.err # NoErr
          THEN /\ CallReturns(NilMsg, m.err)
               /\ cbody' = cbody
          ELSE /\ cbody' = m.body
               /\ cpc' = "sign"
               /\ UNCHANGED <<cresult, cerr>>
    /\ UNCHANGED <<rpcOptions, rpcClient, cvia, sbResult, sbErr>>
    /\ UNCHANGED <<rpcUrl, rpcDebug, cParam, cKey, csignature, cdata, csignCalls,
                   csent, clogged>>
    /\ UNCHANGED <<bvars, ovars>>

\* hashedBody, sig, signature
CSign ==
    /\ cpc = "sign"
    /\ csignCalls' = csignCalls + 1
    /\ LET hashedBody == Keccak256Hex(cbody)
           s == Sign(TextHash(hashedBody), cKey)
       IN IF s.err # NoErr
          THEN /\ CallReturns(NilMsg, s.err)
               /\ csignature' = csignature
          ELSE /\ csignature' = SignatureHeader(cKey, s.sig)
               /\ cpc' = "newreq"
               /\ UNCHANGED <<cresult, cerr>>
    /\ UNCHANGED <<rpcOptions, rpcClient, cmarshalCalls, cvia, sbResult, sbErr>>
    /\ UNCHANGED <<rpcUrl, rpcDebug, cParam, cKey, cbody, cdata, csent, clogged>>
    /\ UNCHANGED <<bvars, ovars>>

\* req, err := http.NewRequest("POST", rpc.url, bytes.NewBuffer(body)); headers
CNewRequest ==
    /\ cpc = "newreq"
    /\ IF NewRequestOK(rpcUrl)
       THEN /\ cpc' = "do"
            /\ UNCHANGED <<cresult, cerr>>
       ELSE CallReturns(NilMsg, UrlParseError)
    /\ UNCHANGED <<rpcOptions, rpcClient, cmarshalCalls, cvia, sbResult, sbErr>>
    /\ UNCHANGED <<rpcUrl, rpcDebug, cParam, cKey, cbody, csignature, cdata,
                   csignCalls, csent, clogged>>
    /\ UNCHANGED <<bvars, ovars>>

\* variant of CDo: a failed call is tried a second time before the error is returned
CDoRetry ==
    /\ cpc = "do"
    /\ cvia' = Append(cvia, rpcClient)
    /\ \E answered \in BOOLEAN :
         IF answered
         THEN /\ csent' = Append(csent, Request(rpcUrl, cbody, csignature, EmptyHeaders))
              /\ cpc' = "read"
              /\ UNCHANGED <<cresult, cerr>>
         ELSE /\ csent' = csent \o <<Request(rpcUrl, cbody, csignature, EmptyHeaders),
                                     Request(rpcUrl, cbody, csignature, EmptyHeaders)>>
              /\ CallReturns(NilMsg, TransportError)
    /\ UNCHANGED <<rpcOptions, rpcClient, cmarshalCalls, sbResult, sbErr>>
    /\ UNCHANGED <<rpcUrl, rpcDebug, cParam, cKey, cbody, csignature, cdata,
                   csignCalls, clogged>>
    /\ UNCHANGED <<bvars, ovars>>

\* response, err := rpc.client.Do(req): the endpoint answers or the call fails
CDo ==
    /\ cpc = "do"
    /\ cvia' = Append(cvia, rpcClient)
    /\ csent' = Append(csent, Request(rpcUrl, cbody, csignature, EmptyHeaders))
    /\ \E answered \in BOOLEAN :
         IF answered
         THEN /\ cpc' = "read"
              /\ UNCHANGED <<cresult, cerr>>
         ELSE CallReturns(NilMsg, TransportError)
    /\ UNCHANGED <<rpcOptions, rpcClient, cmarshalCalls, sbResult, sbErr>>
    /\ UNCHANGED <<rpcUrl, rpcDebug, cParam, cKey, cbody, csignature, cdata,
                   csignCalls, clogged>>
    /\ UNCHANGED <<bvars, ovars>>

\* data, err := io.ReadAll(response.Body): the body arrives, or the read fails
CReadAll ==
    /\ cpc = "read"
    /\ \/ /\ CallReturns(NilMsg, ReadError)
          /\ cdata' = cdata
       \/ \E b \in Bodies :
            /\ cdata' = b
            /\ cpc' = "decode"
            /\ UNCHANGED <<cresult, cerr>>
    /\ UNCHANGED <<rpcOptions, rpcClient, cmarshalCalls, cvia, sbResult, sbErr>>
    /\ UNCHANGED <<rpcUrl, rpcDebug, cParam, cKey, cbody, csignature, csignCalls,
                   csent, clogged>>
    /\ UNCHANGED <<bvars, ovars>>

\* variant of ClassifyResponse: the JSON-RPC envelope is decoded before the flat error
ClassifyResponseEnvelopeFirst(data) ==
    LET errorResp == UnmarshalRelayErrorResponse(data)
        resp == UnmarshalRpcResponse(data)
    IN IF resp.err # NoErr
       THEN [result |-> NilMsg, err |-> resp.err]
       ELSE IF resp.Error.set
       THEN [result |-> NilMsg, err |-> ErrorfRelay(resp.Error.Message)]
       ELSE IF errorResp.err = NoErr /\ errorResp.Error # ""
       THEN [result |-> NilMsg, err |-> ErrorfRelay(errorResp.Error)]
       ELSE [result |-> resp.Result, err |-> NoErr]

\* variant of ClassifyResponse: the result is returned together with the envelope's error
ClassifyResponseKeepResult(data) ==
    LET errorResp == UnmarshalRelayErrorResponse(data)
        resp == UnmarshalRpcResponse(data)
    IN IF errorResp.err = NoErr /\ errorResp.Error # ""
       THEN [result |-> NilMsg, err |-> ErrorfRelay(errorResp.Error)]
       ELSE IF resp.err # NoErr
       THEN [result |-> NilMsg, err |-> resp.err]
       ELSE IF resp.Error.set
       THEN [result |-> resp.Result, err |-> ErrorfRelay(resp.Error.Message)]
       ELSE [result |-> resp.Result, err |-> NoErr]

\* the decoding of the response body: the (result, err) that is returned
ClassifyResponse(data) ==
    LET errorResp == UnmarshalRelayErrorResponse(data)
        resp == UnmarshalRpcResponse(data)
    IN IF errorResp.err = NoErr /\ errorResp.Error # ""
       THEN [result |-> NilMsg, err |-> ErrorfRelay(errorResp.Error)]
       ELSE IF resp.err # NoErr
       THEN [result |-> NilMsg, err |-> resp.err]
       ELSE IF resp.Error.set
       THEN [result |-> NilMsg, err |-> ErrorfRelay(resp.Error.Message)]
       ELSE [result |-> resp.Result, err |-> NoErr]

\* the Debug log line, the decoding of data, and the return
CDecode ==
    /\ cpc = "decode"
    /\ clogged' = IF rpcDebug THEN clogged + 1 ELSE clogged
    /\ LET c == ClassifyResponse(cdata)
       IN CallReturns(c.result, c.err)
    /\ UNCHANGED <<rpcOptions, rpcClient, cmarshalCalls, cvia, sbResult, sbErr>>
    /\ UNCHANGED <<rpcUrl, rpcDebug, cParam, cKey, cbody, csignature, cdata,
                   csignCalls, csent>>
    /\ UNCHANGED <<bvars, ovars>>

\* FlashbotsSendBundle after CallWithFlashbotsSignature returned to it:
\* on err return (res, err) with res the zero value, else decode rawMsg into res
FlashbotsSendBundle ==
    /\ cpc = "returned"
    /\ IF cerr # NoErr
       THEN /\ sbResult' = ""
            /\ sbErr' = cerr
       ELSE LET u == UnmarshalSendBundleResponse(cresult)
            IN /\ sbResult' = u.BundleHash
               /\ sbErr' = u.err
    /\ cpc' = "done"
    /\ UNCHANGED <<rpcOptions, rpcClient, cmarshalCalls, cvia>>
    /\ UNCHANGED <<rpcUrl, rpcDebug, cParam, cKey, cbody, csignature, cdata, cresult,
                   cerr, csignCalls, csent, clogged>>
    /\ UNCHANGED <<bvars, ovars>>

CallNext ==
    \/ CMarshal
    \/ CSign
    \/ CNewRequest
    \/ CDo
    \/ CReadAll
    \/ CDecode
    \/ FlashbotsSendBundle

(***************************************************************************)
(* FlashbotsRPC.FlashbotsSimulateBlock                                     *)
(***************************************************************************)
\* the most transactions of a block explored
MaxTxs == 3

\* addresses: the block's coinbase and two other accounts
CoinbaseAddr == "0xC01BA5E"
Alice == "0xA11CE"
Bob == "0xB0B"

\* types.Sender returned an error; tx.To() returned nil (contract creation)
NoSender == "<sender error>"
NilTo == "<nil to>"

\* a *types.Transaction: its hash, what types.Sender and tx.To() give for it,
\* and the hex text TxToRlp gives for it, as a sequence of two-digit bytes
Tx(hash, from, to, rlp) == [hash |-> hash, from |-> from, to |-> to, rlp |-> rlp]

\* the transactions explored: plain, "b8"- and "b9"-prefixed encodings, from or
\* to the coinbase or neither, with and without a recoverable sender
Txs ==
    {Tx("0xt1", Alice, Bob, <<"f8", "6c", "01", "02">>),
     Tx("0xt2", CoinbaseAddr, Bob, <<"b8", "45", "02", "f8", "43">>),
     Tx("0xt3", Alice, CoinbaseAddr, <<"b9", "01", "07", "02", "f9", "03">>),
     Tx("0xt4", NoSender, NilTo, <<"b8", "45", "02", "f8", "44">>),
     Tx("0xt5", NoSender, CoinbaseAddr, <<"f8", "6c", "01", "05">>),
     Tx("0xt6", Bob, Alice, <<"b9", "01", "07", "02", "f9", "06">>)}

\* hexadecimal digits, and fmt.Sprintf("%x", n)
HexDigits == <<"0", "1", "2", "3", "4", "5", "6", "7", "8", "9",
               "a", "b", "c", "d", "e", "f">>

RECURSIVE SprintfHex(_)
SprintfHex(n) ==
    IF n < 16 THEN HexDigits[n + 1]
    ELSE SprintfHex(n \div 16) \o HexDigits[(n % 16) + 1]

\* a *types.Block: its transactions and the header fields the call reads
Block(txs) ==
    [txs |-> txs, coinbase |-> CoinbaseAddr, number |-> 51966,
     parentHash |-> "0x9a7e17", gasLimit |-> 30000000, difficulty |-> 0,
     baseFee |-> 7]

\* the maxTx arguments explored: negative, zero, and up to the block size
MaxTxArgs == (0 - 1)..MaxTxs

\* the hex text of a byte sequence
RECURSIVE HexText(_)
HexText(bytes) ==
    IF bytes = <<>> THEN "" ELSE Head(bytes) \o HexText(Tail(bytes))

\* rlp[:2] == "b9": rlp = rlp[6:]; rlp[:2] == "b8": rlp = rlp[4:]
StripRlpPrefix(rlp) ==
    IF rlp[1] = "b9" THEN SubSeq(rlp, 4, Len(rlp))
    ELSE IF rlp[1] = "b8" THEN SubSeq(rlp, 3, Len(rlp))
    ELSE rlp

\* the entry the loop appends for a transaction: "0x" + the stripped encoding
BundleEntry(tx) == "0x" \o HexText(StripRlpPrefix(tx.rlp))

\* the FlashbotsCallBundleParam the call builds
FlashbotsCallBundleParam(txs, block) ==
    [Txs |-> txs,
     BlockNumber |-> "0x" \o SprintfHex(block.number),
     StateBlockNumber |-> block.parentHash,
     GasLimit |-> block.gasLimit,
     Difficulty |-> block.difficulty,
     BaseFee |-> block.baseFee]

\* no FlashbotsCallBundleParam built yet
NoParams == [Txs |-> <<>>, BlockNumber |-> "", StateBlockNumber |-> "",
             GasLimit |-> 0, Difficulty |-> 0, BaseFee |-> 0]

\* a call of FlashbotsSimulateBlock(privKey, block, maxTx)
SimInit ==
    /\ simBlock \in {Block(txs) : txs \in UNION {[1..n -> Txs] : n \in 0..MaxTxs}}
    /\ simMaxTx \in MaxTxArgs
    /\ simPc = "loop"
    /\ simIdx = 1
    /\ simTxs = <<>>
    /\ simParams = NoParams

\* no block simulation is under way
SimIdle ==
    /\ simBlock = Block(<<>>)
    /\ simMaxTx = 0
    /\ simPc = "idle"
    /\ simIdx = 1
    /\ simTxs = <<>>
    /\ simParams = NoParams

\* variant of SimIterate: the loop stops after maxTx transactions of the block,
\* counting the ones it left out
SimIterateCountAll ==
    /\ simPc = "loop"
    /\ simIdx <= Len(simBlock.txs)
    /\ LET tx == simBlock.txs[simIdx]
           txIsFromCoinbase == tx.from # NoSender /\ tx.from = simBlock.coinbase
           txIsToCoinbase == tx.to # NilTo /\ tx.to = simBlock.coinbase
       IN IF txIsFromCoinbase \/ txIsToCoinbase
          THEN /\ simIdx' = simIdx + 1
               /\ UNCHANGED <<simTxs, simPc>>
          ELSE /\ simTxs' = Append(simTxs, BundleEntry(tx))
               /\ IF simMaxTx > 0 /\ simIdx = simMaxTx
                  THEN /\ simPc' = "call"
                       /\ simIdx' = simIdx
                  ELSE /\ simIdx' = simIdx + 1
                       /\ simPc' = simPc
    /\ UNCHANGED <<simBlock, simMaxTx, simParams>>
    /\ UNCHANGED <<bvars, cvars, gvars>>

\* one iteration of "for _, tx := range block.Transactions()": continue on a
\* transaction from or to the coinbase, else append its entry and break once
\* maxTx > 0 entries are held
SimIterate ==
    /\ simPc = "loop"
    /\ simIdx <= Len(simBlock.txs)
    /\ LET tx == simBlock.txs[simIdx]
           txIsFromCoinbase == tx.from # NoSender /\ tx.from = simBlock.coinbase
           txIsToCoinbase == tx.to # NilTo /\ tx.to = simBlock.coinbase
       IN IF txIsFromCoinbase \/ txIsToCoinbase
          THEN /\ simIdx' = simIdx + 1
               /\ UNCHANGED <<simTxs, simPc>>
          ELSE /\ simTxs' = Append(simTxs, BundleEntry(tx))
               /\ IF simMaxTx > 0 /\ Len(simTxs') = simMaxTx
                  THEN /\ simPc' = "call"
                       /\ simIdx' = simIdx
                  ELSE /\ simIdx' = simIdx + 1
                       /\ simPc' = simPc
    /\ UNCHANGED <<simBlock, simMaxTx, simParams>>
    /\ UNCHANGED <<bvars, cvars, gvars>>

\* after the loop: params := FlashbotsCallBundleParam{...};
\* rpc.FlashbotsCallBundle(privKey, params)
SimCallBundle ==
    /\ \/ simPc = "call"
       \/ simPc = "loop" /\ simIdx > Len(simBlock.txs)
    /\ simParams' = FlashbotsCallBundleParam(simTxs, simBlock)
    /\ simPc' = "done"
    /\ UNCHANGED <<simBlock, simMaxTx, simIdx, simTxs>>
    /\ UNCHANGED <<bvars, cvars, gvars>>

SimNext ==
    \/ SimIterate
    \/ SimCallBundle

(***************************************************************************)
(* FlashbotsRPC.Call and getBlock                                          *)
(***************************************************************************)
\* the methods of EthGetBlockByHash and EthGetBlockByNumber
GetBlockMethods == {"eth_getBlockByHash", "eth_getBlockByNumber"}

\* raw JSON texts of a "result" member: a block with transaction hashes, a
\* block with transaction objects, the JSON null, a JSON string
BlockWithHashes == "{\"number\":\"0x1b4\",\"transactions\":[\"0xt1\"]}"
BlockWithObjects == "{\"number\":\"0x1b4\",\"transactions\":[{\"hash\":\"0xt1\"}]}"
GetBlockResultTexts == {BlockWithHashes, BlockWithObjects, "null", "\"0x1b4\""}

\* every response body a node may send to a block query
GetBlockBodies ==
    {InvalidBody, NonObjectBody, NullBody}
    \cup {ObjectBody(e, r) : e \in ErrorMembers,
                             r \in {Absent} \cup {Member("value", t) : t \in GetBlockResultTexts}}

\* how the HTTP exchange of one Call goes: client.Do fails, the body cannot be
\* read, or a body arrives
HttpExchanges ==
    {[kind |-> "transport", data |-> NoBody], [kind |-> "read", data |-> NoBody]}
    \cup {[kind |-> "body", data |-> b] : b \in GetBlockBodies}

\* the error value Call returns for a set resp.Error: *resp.Error, an RpcError
RpcErrorValue(e) ==
    [type |-> "flashbotsrpc.RpcError", wraps |-> "",
     text |-> "Error 0 (" \o e.Message \o ")"]

\* Call(method, params...) for one way the HTTP exchange goes: (result, err)
Call(url, method, params, http) ==
    LET m == Marshal(method, params)
        resp == UnmarshalRpcResponse(http.data)
    IN IF m.err # NoErr THEN [result |-> NilMsg, err |-> m.err]
       ELSE IF ~NewRequestOK(url) THEN [result |-> NilMsg, err |-> UrlParseError]
       ELSE IF http.kind = "transport" THEN [result |-> NilMsg, err |-> TransportError]
       ELSE IF http.kind = "read" THEN [result |-> NilMsg, err |-> ReadError]
       ELSE IF resp.err # NoErr THEN [result |-> NilMsg, err |-> resp.err]
       ELSE IF resp.Error.set THEN [result |-> NilMsg, err |-> RpcErrorValue(resp.Error)]
       ELSE [result |-> resp.Result, err |-> NoErr]

\* the nil *Block, and the Block decoded from a block text
NilBlock == [set |-> FALSE, Number |-> 0, Transactions |-> <<>>]
BlockOf(number, txs) == [set |-> TRUE, Number |-> number, Transactions |-> txs]

\* json.Unmarshal(result, response) followed by response.toBlock(), with
\* response a proxyBlockWithTransactions or a proxyBlockWithoutTransactions
UnmarshalBlock(result, withTransactions) ==
    CASE result = NilMsg -> [err |-> JsonEOFError, block |-> NilBlock]
      [] result = "null" -> [err |-> NoErr, block |-> BlockOf(0, <<>>)]
      [] result = BlockWithHashes ->
           IF withTransactions
           THEN [err |-> JsonTypeError, block |-> NilBlock]
           ELSE [err |-> NoErr, block |-> BlockOf(436, <<"0xt1">>)]
      [] result = BlockWithObjects ->
           IF withTransactions
           THEN [err |-> NoErr, block |-> BlockOf(436, <<"0xt1">>)]
           ELSE [err |-> JsonTypeError, block |-> NilBlock]
      [] OTHER -> [err |-> JsonTypeError, block |-> NilBlock]

\* the params of a block query: the hash or hex number, and withTransactions
GetBlockParams(method, withTransactions) ==
    (IF method = "eth_getBlockByHash" THEN "\"0xe670ec\"" ELSE "\"0x1b4\"")
    \o (IF withTransactions THEN ",true" ELSE ",false")

\* EthGetBlockByHash(hash, withTransactions) or
\* EthGetBlockByNumber(number, withTransactions) on a client for gUrl
GetBlockInit ==
    /\ gUrl \in Urls
    /\ gMethod \in GetBlockMethods
    /\ gWithTx \in BOOLEAN
    /\ gpc = "call"
    /\ gdata = NoBody
    /\ gResult = NilMsg
    /\ gErr = NoErr
    /\ gBlock = NilBlock
    /\ gBlockErr = NoErr

\* no block query is under way
GetBlockIdle ==
    /\ gUrl = BadUrl
    /\ gMethod = "eth_getBlockByHash"
    /\ gWithTx = FALSE
    /\ gpc = "idle"
    /\ gdata = NoBody
    /\ gResult = NilMsg
    /\ gErr = NoErr
    /\ gBlock = NilBlock
    /\ gBlockErr = NoErr

\* result, err := rpc.RawCall(method, params...), which is rpc.Call
RawCall ==
    /\ gpc = "call"
    /\ \E http \in HttpExchanges :
         LET r == Call(gUrl, gMethod, GetBlockParams(gMethod, gWithTx), http)
         IN /\ gdata' = IF NewRequestOK(gUrl) THEN http.data ELSE NoBody
            /\ gResult' = r.result
            /\ gErr' = r.err
    /\ gpc' = "decode"
    /\ UNCHANGED <<gUrl, gMethod, gWithTx, gBlock, gBlockErr>>
    /\ UNCHANGED <<bvars, cvars, svars>>

\* variant of getBlock: the result is decoded without the test for "null"
getBlockDecodeNull ==
    /\ gpc = "decode"
    /\ LET u == UnmarshalBlock(gResult, gWithTx)
       IN IF gErr # NoErr
          THEN /\ gBlock' = NilBlock
               /\ gBlockErr' = gErr
          ELSE IF u.err # NoErr
          THEN /\ gBlock' = NilBlock
               /\ gBlockErr' = u.err
          ELSE /\ gBlock' = u.block
               /\ gBlockErr' = NoErr
    /\ gpc' = "done"
    /\ UNCHANGED <<gUrl, gMethod, gWithTx, gdata, gResult, gErr>>
    /\ UNCHANGED <<bvars, cvars, svars>>

\* getBlock after RawCall: return nil, err; return nil, nil on "null"; else
\* decode and return &block, nil or nil, err
getBlock ==
    /\ gpc = "decode"
    /\ LET u == UnmarshalBlock(gResult, gWithTx)
       IN IF gErr # NoErr
          THEN /\ gBlock' = NilBlock
               /\ gBlockErr' = gErr
          ELSE IF gResult = "null"
          THEN /\ gBlock' = NilBlock
               /\ gBlockErr' = NoErr
          ELSE IF u.err # NoErr
          THEN /\ gBlock' = NilBlock
               /\ gBlockErr' = u.err
          ELSE /\ gBlock' = u.block
               /\ gBlockErr' = NoErr
    /\ gpc' = "done"
    /\ UNCHANGED <<gUrl, gMethod, gWithTx, gdata, gResult, gErr>>
    /\ UNCHANGED <<bvars, cvars, svars>>

GetBlockNext ==
    \/ RawCall
    \/ getBlock

(***************************************************************************)
(* Specifications                                                          *)
(***************************************************************************)
vars == <<bvars, cvars, svars, gvars>>

\* one BroadcastBundle call on a broadcaster
Init == BroadcastInit /\ CallIdle /\ SimIdle /\ GetBlockIdle

Next == BroadcastNext

Spec == Init /\ [][Next]_vars

\* the steps of the goroutine that calls broadcastRequest, and of worker i
CallerStep ==
    \/ BMarshal \/ BSign \/ BDispatch \/ BSpawnCloser \/ BReturn \/ BroadcastBundle
    \/ \E i \in Endpoints : BReceive(i)

WorkerStep(i) ==
    /\ i \in Endpoints
    /\ WNewRequest(i) \/ WDo(i) \/ WReadAll(i) \/ WAfterSend(i)

\* the Go scheduler runs every goroutine that can take a step, and every
\* client.Do and ReadAll returns (response, error or the client's Timeout)
Fairness ==
    /\ WF_vars(CallerStep)
    /\ \A i \in 1..MaxUrls : WF_vars(WorkerStep(i))
    /\ WF_vars(CloserClose)

\* one BroadcastBundle call on a broadcaster, every goroutine scheduled fairly
SpecFair == Init /\ [][Next]_vars /\ Fairness

\* one FlashbotsSendBundle call, through CallWithFlashbotsSignature, on a client
InitCall == CallInit /\ BroadcastIdle /\ SimIdle /\ GetBlockIdle

NextCall == CallNext

SpecCall == InitCall /\ [][NextCall]_vars

\* either one BroadcastBundle call or one FlashbotsSendBundle call
InitAll == Init \/ InitCall

NextAll == BroadcastNext \/ CallNext

SpecAll == InitAll /\ [][NextAll]_vars

\* one FlashbotsSimulateBlock call
InitSim == SimInit /\ BroadcastIdle /\ CallIdle /\ GetBlockIdle

NextSim == SimNext

SpecSim == InitSim /\ [][NextSim]_vars

\* one EthGetBlockByHash or EthGetBlockByNumber call
InitGetBlock == GetBlockInit /\ BroadcastIdle /\ CallIdle /\ SimIdle

NextGetBlock == GetBlockNext

SpecGetBlock == InitGetBlock /\ [][NextGetBlock]_vars

(***************************************************************************)
(* Properties of the broadcast (specification Spec)                        *)
(***************************************************************************)
\* broadcastRequest has returned to BroadcastBundle
BReturned == bpc \in {"returned", "done"}

\* serialisation and signing succeeded, so the endpoints were dispatched
BSigned == signature # NilMsg

\* the outcome of an endpoint that answered SuccessBody
SuccessOutcome == Outcome(BundleResult, NoErr)

\* the outcomes of endpoints that answered a well-formed success response
SuccessOutcomes == {SuccessOutcome, Outcome(OtherBundleResult, NoErr)}

\* positions of the success outcomes in a collection of outcomes
SuccessesIn(outs) == {k \in 1..Len(outs) : outs[k] \in SuccessOutcomes}

\* endpoints whose worker read a well-formed success response
RepliedSuccess == {i \in Endpoints : wdata[i] \in {SuccessBody, OtherSuccessBody}}

\* endpoints whose worker read a relay error or a malformed body
RepliedFailure == {i \in Endpoints : wdata[i] \in {FlatErrorBody, RpcErrorBody, InvalidBody}}

\* endpoints whose HTTP call failed (timeout, connection, body read)
HttpFailed == {i \in Endpoints : werr[i] \in {TransportError, ReadError}}

\* C1: a broadcast to N endpoint URLs returns exactly N outcomes, from
\* broadcastRequest and from BroadcastBundle, whatever the endpoints' results
\* and the order of completion
C1_FanOutComplete ==
    (BSigned /\ \A i \in Endpoints : NewRequestOK(urls[i])) =>
        /\ BReturned => Len(returned) = Len(urls)
        /\ bpc = "done" => Len(bundleResponses) = Len(urls)

\* C2: when an endpoint's response is a relay error or malformed, the failure
\* is an outcome of the returned collection and every endpoint that replied
\* successfully still has its success outcome there
C2_FailureIsolation ==
    (BReturned /\ BSigned /\ RepliedFailure # {}) =>
        /\ \E k \in 1..Len(returned) : returned[k].Err # NoErr
        /\ Cardinality(SuccessesIn(returned)) = Cardinality(RepliedSuccess)

\* C3: when exactly one endpoint's HTTP call fails and the other N-1 reply
\* with well-formed success responses, the returned collection holds N-1
\* success outcomes, and so does BroadcastBundle's
C3_TimeoutIsolation ==
    (BReturned /\ BSigned /\ Cardinality(HttpFailed) = 1
       /\ Cardinality(RepliedSuccess) = Len(urls) - 1) =>
        /\ Len(returned) = Len(urls) - 1
        /\ \A k \in 1..Len(returned) : returned[k] \in SuccessOutcomes
        /\ bpc = "done" =>
             /\ Len(bundleResponses) = Len(urls) - 1
             /\ \A k \in 1..Len(bundleResponses) :
                  bundleResponses[k] \in {BroadcastResponse("0xdeadbeef", NoErr),
                                          BroadcastResponse("0xfeedface", NoErr)}

\* C3 witness: three endpoints, one timed out, two success outcomes returned
C3_Witness ==
    /\ bpc = "done"
    /\ Len(urls) = 3
    /\ Cardinality(HttpFailed) = 1
    /\ Cardinality(RepliedSuccess) = 2
    /\ Len(bundleResponses) = 2

\* C4: when broadcastRequest has returned, every dispatched worker has finished
C4_JoinBarrier ==
    BReturned => \A i \in Endpoints : wpc[i] \in {"idle", "done"}

\* C5: every endpoint whose request construction, HTTP call or body read failed
\* has an outcome carrying that error in the returned collection
C5_ErrorsReturned ==
    (BReturned /\ BSigned) =>
        \A i \in Endpoints :
            werr[i] # NoErr =>
                \E k \in 1..Len(returned) :
                    returned[k].Err = werr[i] /\ IsTransportError(returned[k].Err)

\* all requests handed to client.Do so far, over all endpoints
AllSent == UNION {{sent[i][k] : k \in 1..Len(sent[i])} : i \in Endpoints}

\* C6: the body is signed once, before any worker is dispatched, and every
\* request to every endpoint carries that body and that signature header
C6_SingleSignature ==
    /\ signCalls <= 1
    /\ dispatched > 0 => (signCalls = 1 /\ BSigned)
    /\ \A r \in AllSent : r.body = body /\ r.signature = signature /\ BSigned
    /\ \A r1, r2 \in AllSent : r1.body = r2.body /\ r1.signature = r2.signature

\* C6 witness: two endpoints have each been sent a request
C6_Witness ==
    /\ Len(urls) >= 2
    /\ sent[1] # <<>>
    /\ sent[2] # <<>>
    /\ signCalls = 1

\* the worker of endpoint i is past its client.Do call, or has returned
AttemptOver(i) == wpc[i] \in {"read", "send", "sent", "done"}

\* C7 as stated: every configured URL entry is sent exactly one POST
C7_ExactlyOnePost ==
    BSigned => \A i \in Endpoints : AttemptOver(i) => Len(sent[i]) = 1

\* C7 amended: at most one POST per entry; exactly one, once its worker is
\* past client.Do, for an entry whose URL parses, whatever the endpoint's
\* result; none for an entry whose URL http.NewRequest rejects
C7_AtMostOnePost ==
    \A i \in Endpoints :
        /\ Len(sent[i]) <= 1
        /\ AttemptOver(i) => Len(sent[i]) = (IF NewRequestOK(urls[i]) THEN 1 ELSE 0)
        /\ \A k \in 1..Len(sent[i]) : sent[i][k].url = urls[i] /\ sent[i][k].method = "POST"

\* C7 witness: a failed endpoint and an endpoint that answered, one POST each,
\* and an unparseable entry with none
C7_Witness ==
    /\ bpc = "done"
    /\ Len(urls) = 3
    /\ \E i, j, k \in Endpoints :
         /\ werr[i] = TransportError /\ Len(sent[i]) = 1
         /\ wdata[j] = SuccessBody /\ Len(sent[j]) = 1
         /\ werr[k] = UrlParseError /\ Len(sent[k]) = 0

(***************************************************************************)
(* Properties of the signed call (specification SpecCall)                  *)
(***************************************************************************)
\* the call has returned after reading a response body
CReturnedOnBody == cpc = "returned" /\ cdata # NoBody

\* the body is the flat shape {"error": s} with s a non-empty string
IsFlatError(d) == d.kind = "object" /\ d.error.t = "string" /\ d.error.v # ""

\* the body is a JSON-RPC envelope: an object (or null) whose error member,
\* if present, is null or an object
IsEnvelope(d) == d.kind \in {"object", "null"} /\ d.error.t \in {"absent", "null", "object"}

\* the envelope's error member is set
EnvelopeErrorSet(d) == d.kind = "object" /\ d.error.t = "object"

\* the text of a relay error carrying message m
RelayErrorText(m) == "relay error response: " \o m

\* C8: a body of the flat shape {"error": s}, s non-empty, makes the call
\* return a relay error with message s, never a protocol error or a result,
\* whatever else the body holds
C8_FlatErrorPrecedence ==
    (CReturnedOnBody /\ IsFlatError(cdata)) =>
        /\ IsRelayError(cerr)
        /\ cerr.text = RelayErrorText(cdata.error.v)
        /\ ~IsProtocolError(cerr)
        /\ cresult = NilMsg

\* C8 witness: a flat error body that also has a result member was answered
C8_Witness ==
    /\ CReturnedOnBody
    /\ IsFlatError(cdata)
    /\ cdata.result.t = "value"

\* C9: for a body that is not a non-empty flat error and is a JSON-RPC
\* envelope, the call returns a relay error with the envelope's error message
\* if the error member is set, even beside a result, and otherwise the raw
\* result with a nil error; never a result together with an error
C9_EnvelopeClassification ==
    /\ (CReturnedOnBody /\ ~IsFlatError(cdata) /\ IsEnvelope(cdata)) =>
          IF EnvelopeErrorSet(cdata)
          THEN /\ IsRelayError(cerr)
               /\ cerr.text = RelayErrorText(cdata.error.v)
               /\ cresult = NilMsg
          ELSE /\ cerr = NoErr
               /\ cresult = (IF cdata.result.t = "value" THEN cdata.result.v ELSE NilMsg)
    /\ ~(cresult # NilMsg /\ cerr # NoErr)

\* C9 witness: an envelope with both error and result set was answered
C9_Witness ==
    /\ CReturnedOnBody
    /\ EnvelopeErrorSet(cdata)
    /\ cdata.result.t = "value"
    /\ IsRelayError(cerr)

\* C10: the call returns an error matching ErrRelayErrorResponse exactly when
\* the body was a non-empty flat error or an envelope with error set; a body
\* in neither shape gives a protocol error, a failed HTTP call a transport
\* error, neither matching ErrRelayErrorResponse; a relay error's text ends in
\* the relay's message, unmodified
C10_ErrorClasses ==
    cpc = "returned" =>
        /\ IsRelayError(cerr) <=>
             (cdata # NoBody /\ (IsFlatError(cdata) \/ EnvelopeErrorSet(cdata)))
        /\ (cdata # NoBody /\ ~IsFlatError(cdata) /\ ~IsEnvelope(cdata)) =>
             (IsProtocolError(cerr) /\ ~IsRelayError(cerr))
        /\ (csent # <<>> /\ cdata = NoBody) =>
             (IsTransportError(cerr) /\ ~IsRelayError(cerr))
        /\ IsRelayError(cerr) => cerr.text = RelayErrorText(cdata.error.v)
        /\ ~(IsRelayError(cerr) /\ IsProtocolError(cerr))
        /\ ~(IsRelayError(cerr) /\ IsTransportError(cerr))
        /\ ~(IsProtocolError(cerr) /\ IsTransportError(cerr))

\* C10 witness: a malformed body was answered and a protocol error returned
C10_Witness ==
    /\ cpc = "returned"
    /\ cdata = InvalidBody
    /\ IsProtocolError(cerr)

(***************************************************************************)
(* Properties of both signed paths (specification SpecAll)                 *)
(***************************************************************************)
\* C11: no HTTP request is issued before the signature has been computed;
\* when serialisation or signing fails no request is issued at all and the
\* failure is returned, by the broadcast as its only outcome
C11_SignBeforeNetwork ==
    /\ AllSent # {} => (signCalls = 1 /\ BSigned)
    /\ dispatched > 0 => BSigned
    /\ (BReturned /\ ~BSigned) =>
          /\ AllSent = {}
          /\ dispatched = 0
          /\ \E e \in {MarshalError, SignError} : returned = <<Outcome(NilMsg, e)>>
    /\ csent # <<>> => (csignCalls = 1 /\ csignature # NilMsg)
    /\ (cpc = "returned" /\ csignature = NilMsg) =>
          /\ csent = <<>>
          /\ cerr \in {MarshalError, SignError}
          /\ cresult = NilMsg

\* C11 witness: a broadcast to two endpoints whose signing failed has returned
C11_Witness ==
    /\ BReturned
    /\ Len(urls) >= 2
    /\ bKey = InvalidKey
    /\ returned = <<Outcome(NilMsg, SignError)>>

\* C12: a signed call issues at most one POST, and a POST that fails at the
\* transport level ends the call with that error
C12_NoRetry ==
    /\ Len(csent) <= 1
    /\ (csent # <<>> /\ cdata = NoBody /\ cpc # "read") =>
          /\ cpc \in {"returned", "done"}
          /\ cerr \in {TransportError, ReadError}
          /\ cresult = NilMsg

\* C12 witness: the one POST failed and the transport error was returned
C12_Witness ==
    /\ cpc = "returned"
    /\ Len(csent) = 1
    /\ cerr = TransportError

\* the wire format of the envelope for eth_sendBundle with one parameter
ExpectedBody(param) ==
    "{\"id\":1,\"jsonrpc\":\"2.0\",\"method\":\"eth_sendBundle\",\"params\":[" \o param \o "]}"

\* the header value for body b under key: the address of the key, ":", and the
\* hex of the signature over the personal-message hash of the hex keccak of b
ExpectedSignature(b, key) ==
    PubkeyToAddressHex(key) \o ":" \o HexutilEncode(Sign(TextHash(Keccak256Hex(b)), key).sig)

\* C14: the envelope is serialised once, with id 1 and version "2.0", and the
\* body of every request is the byte string that was hashed and signed
C14_SignedEqualsSent ==
    /\ marshalCalls <= 1
    /\ cmarshalCalls <= 1
    /\ \A r \in AllSent :
          /\ marshalCalls = 1
          /\ r.body = ExpectedBody(bParam)
          /\ r.body = body
          /\ signature = ExpectedSignature(r.body, bKey)
    /\ \A k \in 1..Len(csent) :
          /\ cmarshalCalls = 1
          /\ csent[k].body = ExpectedBody(cParam)
          /\ csent[k].body = cbody
          /\ csignature = ExpectedSignature(csent[k].body, cKey)

\* C14 witness: two endpoints of a broadcast have been sent the signed body
C14_Witness ==
    /\ Len(urls) >= 2
    /\ sent[1] # <<>>
    /\ sent[2] # <<>>
    /\ marshalCalls = 1

\* C15: the X-Flashbots-Signature value of every request is
\* address(key) ":" hex(sign(personalMessageHash(hexString(keccak256(body))), key))
C15_SignatureScheme ==
    /\ \A r \in AllSent :
          r.signature = ExpectedSignature(r.body, bKey)
    /\ \A k \in 1..Len(csent) :
          csent[k].signature = ExpectedSignature(csent[k].body, cKey)
    /\ BSigned => signature = ExpectedSignature(body, bKey)
    /\ csignature # NilMsg => csignature = ExpectedSignature(cbody, cKey)

\* C15 witness: a broadcast request carrying the header has been sent
C15_Witness ==
    /\ Len(urls) >= 1
    /\ Len(sent[1]) = 1
    /\ sent[1][1].signature = ExpectedSignature(ExpectedBody(bParam), "K1")

\* some option passed to New is WithHttpClient
HasWithHttpClient == \E k \in 1..Len(rpcOptions) : rpcOptions[k].opt = "WithHttpClient"

\* C17: after New(url, WithHttpClient(c)) every request of the signed call is
\* issued through c
C17_CustomClientUsed ==
    HasWithHttpClient => \A k \in 1..Len(cvia) : cvia[k] = CustomClient

\* C18: BroadcastBundle returns one response per outcome of broadcastRequest;
\* an outcome carrying an error becomes the one response whose Err is that error
C18_OneResponsePerOutcome ==
    bpc = "done" =>
        /\ Len(bundleResponses) = Len(returned)
        /\ \A k \in 1..Len(returned) :
              returned[k].Err # NoErr =>
                  bundleResponses[k] = BroadcastResponse("", returned[k].Err)

\* the bundle hash in a well-formed success response
BundleHashIn(d) == IF d.result.v = BundleResult THEN "0xdeadbeef" ELSE "0xfeedface"

\* the body is an envelope with result {"bundleHash": h} and no error
IsBundleSuccess(d) ==
    /\ d.kind = "object"
    /\ d.error.t \in {"absent", "null"}
    /\ d.result.t = "value"
    /\ d.result.v \in {BundleResult, OtherBundleResult}

\* every body the range loop received was a well-formed success response
AllDeliveredSuccess == \A k \in 1..Len(delivered) : IsBundleSuccess(wdata[delivered[k]])

\* C19: an endpoint's reply {"result": {"bundleHash": h}} makes
\* FlashbotsSendBundle return h with a nil error, and the response of
\* BroadcastBundle for that endpoint's outcome is {BundleHash: h, Err: nil}
C19_SuccessPath ==
    /\ (cpc = "done" /\ IsBundleSuccess(cdata)) =>
          (sbResult = BundleHashIn(cdata) /\ sbErr = NoErr)
    /\ (bpc = "done" /\ BSigned /\ AllDeliveredSuccess) =>
          /\ Len(bundleResponses) = Len(delivered)
          /\ \A k \in 1..Len(delivered) :
                bundleResponses[k] =
                    BroadcastResponse(BundleHashIn(wdata[delivered[k]]), NoErr)

\* C19 witness: two endpoints answered different bundle hashes and both are returned
C19_Witness ==
    /\ bpc = "done"
    /\ Len(urls) = 2
    /\ wdata[1] = SuccessBody
    /\ wdata[2] = OtherSuccessBody
    /\ Len(bundleResponses) = 2

\* C20: the returned outcomes are in the order in which the range loop
\* received the endpoints' responses, which need not be the order of urls
C20_CompletionOrder ==
    (BReturned /\ BSigned /\ AllDeliveredSuccess) =>
        /\ Len(returned) = Len(delivered)
        /\ \A k \in 1..Len(delivered) :
              returned[k] = Outcome(wdata[delivered[k]].result.v, NoErr)

\* C20 witness: the second URL's outcome is returned before the first URL's
C20_Witness ==
    /\ BReturned
    /\ Len(urls) = 2
    /\ delivered = <<2, 1>>
    /\ wdata[1] = SuccessBody
    /\ wdata[2] = OtherSuccessBody
    /\ returned = <<Outcome(OtherBundleResult, NoErr), Outcome(BundleResult, NoErr)>>

(***************************************************************************)
(* Properties of the broadcast's goroutines (Spec and SpecFair)            *)
(***************************************************************************)
\* C21: every endpoint's request can be issued whatever the other workers are
\* doing (not yet sent, not answered, blocked on the channel, not aggregated),
\* and the dispatch loop and the spawning of the closing goroutine never wait
C21_IndependentDispatch ==
    /\ (bpc = "dispatch" /\ dispatched < Len(urls)) => ENABLED BDispatch
    /\ (bpc = "dispatch" /\ dispatched = Len(urls)) => ENABLED BSpawnCloser
    /\ \A i \in Endpoints :
          /\ wpc[i] = "newreq" => ENABLED WNewRequest(i)
          /\ wpc[i] = "do" => ENABLED WDo(i)

\* C21 witness: the third endpoint's request was issued while the first had
\* not been sent its request and the second was never handed to the aggregator
C21_Witness ==
    /\ Len(urls) = 3
    /\ wpc[1] = "do"
    /\ wpc[2] = "send"
    /\ wpc[3] = "read"
    /\ Len(sent[3]) = 1
    /\ delivered = <<>>

\* workers that were dispatched and have not signalled completion
Unfinished == {i \in Endpoints : wpc[i] \notin {"idle", "done"}}

\* the safety half of the close protocol: the wait-group counts the
\* unfinished workers (a worker blocked on its send or past it is counted),
\* the channel is closed only by the closing goroutine's one close, after
\* every worker was dispatched and has signalled completion
C22_CloseSafety ==
    /\ wg = Cardinality(Unfinished)
    /\ closed <=> closerPc = "done"
    /\ closed => (dispatched = Len(urls) /\ Unfinished = {})

\* C22: the channel is closed exactly once, only after every dispatched worker
\* has signalled completion; no worker sends after the close, and a worker's
\* send precedes its wg.Done
C22_CloseAfterWriters ==
    /\ []C22_CloseSafety
    /\ (closerPc = "wait") ~> closed

\* every goroutine the broadcast started has terminated
GoroutinesTerminated ==
    /\ \A i \in Endpoints : wpc[i] \in {"idle", "done"}
    /\ closerPc \in {"idle", "done"}

\* C23: every dispatched worker and the closing goroutine eventually
\* terminate; no worker stays blocked on its send when the range loop has
\* returned early
C23_NoWorkerLeak == <>[]GoroutinesTerminated

\* a step of a worker alone: its position changes, nothing is handed over or
\* dispatched
WorkerOnlyStep == wpc' # wpc /\ delivered' = delivered /\ dispatched' = dispatched

\* C24: no step of a broadcast changes the broadcaster's urls, Headers,
\* Timeout, Debug or client, and a worker's own step changes no local of the
\* calling goroutine
C24_ReadOnlyShared ==
    [][/\ urls' = urls
       /\ bHeaders' = bHeaders
       /\ bTimeout' = bTimeout
       /\ bDebug' = bDebug
       /\ bClient' = bClient
       /\ WorkerOnlyStep =>
             UNCHANGED <<bpc, body, signature, responses, returned, bundleResponses>>]_vars

\* C24 witness: a finished broadcast in which two workers built and sent
\* requests carrying the broadcaster's Headers
C24_Witness ==
    /\ bpc = "done"
    /\ Len(urls) = 2
    /\ \A i \in Endpoints :
          /\ wpc[i] = "done"
          /\ Len(sent[i]) = 1
          /\ sent[i][1].headers = bHeaders
    /\ bHeaders = NewBuilderBroadcastRPC.Headers

\* the body makes the range loop fail: a non-empty flat error, not an
\* envelope, or an envelope with error set
IsFailureBody(d) == IsFlatError(d) \/ ~IsEnvelope(d) \/ EnvelopeErrorSet(d)

\* C25: a received response that is a non-empty flat error, not an envelope or
\* an envelope with error set is the last one read, and broadcastRequest has
\* returned exactly one outcome, that failure with Msg nil
C25_EarlyReturn ==
    \A k \in 1..Len(delivered) :
        LET d == wdata[delivered[k]]
        IN IsFailureBody(d) =>
             /\ k = Len(delivered)
             /\ BReturned
             /\ Len(returned) = 1
             /\ returned[1].Msg = NilMsg
             /\ IsFlatError(d) => returned[1].Err.text = RelayErrorText(d.error.v)
             /\ (~IsFlatError(d) /\ ~IsEnvelope(d)) => IsProtocolError(returned[1].Err)
             /\ (~IsFlatError(d) /\ EnvelopeErrorSet(d)) =>
                   returned[1].Err.text = RelayErrorText(d.error.v)

\* C25 witness: a success was collected, then a flat error was read; one
\* outcome is returned and the third worker's response is never read
C25_Witness ==
    /\ Len(urls) = 3
    /\ delivered = <<1, 2>>
    /\ wdata[1] = SuccessBody
    /\ wdata[2] = FlatErrorBody
    /\ wpc[3] = "send"
    /\ bpc = "done"
    /\ returned = <<Outcome(NilMsg, ErrorfRelay("block param must be a hex int"))>>

\* C27: whatever the number of endpoints and whatever their results,
\* broadcastRequest eventually returns to its caller
C27_CallTerminates == <>BReturned

\* C27 witness: two endpoints whose workers both failed without sending, and
\* the call has returned the empty collection
C27_Witness ==
    /\ BReturned
    /\ Len(urls) = 2
    /\ \A i \in Endpoints : werr[i] # NoErr
    /\ delivered = <<>>
    /\ closed
    /\ returned = <<>>

\* C28: every success outcome returned is the result of a response the range
\* loop received from an endpoint, each received response gives at most one
\* outcome, and the successes are no more than the endpoints that replied with
\* a success (the outcomes no more than the endpoints)
C28_NoFabrication ==
    (BReturned /\ BSigned) =>
        /\ Len(returned) <= Len(delivered)
        /\ Len(returned) <= Len(urls)
        /\ \A j, k \in 1..Len(delivered) : delivered[j] = delivered[k] => j = k
        /\ \A k \in 1..Len(returned) :
              returned[k].Err = NoErr =>
                  /\ IsBundleSuccess(wdata[delivered[k]])
                  /\ returned[k].Msg = wdata[delivered[k]].result.v
        /\ Cardinality({k \in 1..Len(returned) : returned[k].Err = NoErr})
              <= Cardinality(RepliedSuccess)

\* C28 witness: two endpoints answered the same bundle hash and a third timed
\* out; two success outcomes are returned
C28_Witness ==
    /\ BReturned
    /\ Len(urls) = 3
    /\ wdata[1] = SuccessBody
    /\ wdata[2] = SuccessBody
    /\ werr[3] = TransportError
    /\ returned = <<SuccessOutcome, SuccessOutcome>>

(***************************************************************************)
(* Properties of FlashbotsSimulateBlock (specification SpecSim)            *)
(***************************************************************************)
\* the transactions of a block whose sender and whose recipient are not the
\* block's coinbase, in block order
Kept(block) ==
    SelectSeq(block.txs, LAMBDA t : t.from # block.coinbase /\ t.to # block.coinbase)

\* the first n elements of a sequence, all of them when it has fewer
FirstN(seq, n) == SubSeq(seq, 1, IF n < Len(seq) THEN n ELSE Len(seq))

\* the bundle entries of a sequence of transactions
EntriesOf(txs) == [k \in 1..Len(txs) |-> BundleEntry(txs[k])]

\* C26: the bundle handed to FlashbotsCallBundle holds, in block order, the
\* transactions neither from nor to the coinbase: the first maxTx of them when
\* maxTx > 0, all of them when maxTx = 0
C26_BundleSelection ==
    simPc = "done" =>
        /\ simMaxTx > 0 => simParams.Txs = EntriesOf(FirstN(Kept(simBlock), simMaxTx))
        /\ simMaxTx = 0 => simParams.Txs = EntriesOf(Kept(simBlock))

\* C26 witness: a block of three transactions, the first from the coinbase and
\* two kept; with maxTx = 1 the bundle is the second transaction alone
C26_Witness ==
    /\ simPc = "done"
    /\ Len(simBlock.txs) = 3
    /\ simBlock.txs[1].from = simBlock.coinbase
    /\ Len(Kept(simBlock)) = 2
    /\ simMaxTx = 1
    /\ simParams.Txs = <<BundleEntry(simBlock.txs[2])>>

(***************************************************************************)
(* Properties of getBlock (specification SpecGetBlock)                     *)
(***************************************************************************)
\* the node answered an envelope without error whose result is the JSON null
AnsweredNull ==
    /\ gdata.kind = "object"
    /\ gdata.error.t \in {"absent", "null"}
    /\ gdata.result = Member("value", "null")

\* C29: a block query answered with the result null returns a nil block and a
\* nil error; a block query whose RPC call failed returns a nil block and the
\* call's error
C29_NullBlock ==
    gpc = "done" =>
        /\ AnsweredNull => (gBlock = NilBlock /\ gBlockErr = NoErr)
        /\ gErr # NoErr => (gBlock = NilBlock /\ gBlockErr = gErr)

\* C29 witness: eth_getBlockByNumber with transactions answered null
C29_Witness ==
    /\ gpc = "done"
    /\ gMethod = "eth_getBlockByNumber"
    /\ gWithTx
    /\ AnsweredNull
    /\ gResult = "null"
    /\ gBlock = NilBlock
    /\ gBlockErr = NoErr

====
